---------------------------- MODULE Spec2Model ----------------------------
(***************************************************************************)
(* Model of the T2A text-to-speech servers.  The repository holds three    *)
(* server programs that are variants of one request pipeline:              *)
(*   "stream"  : src/unnamed/part_000 lines 1-258   (POST /api/tts streams *)
(*               the audio, POST /api/tts/complete returns a JSON envelope)*)
(*   "t2a"     : src/unnamed/part_000 lines 260-677 (POST /api/tts, POST   *)
(*               /api/tts/json, periodic sweep of the temp directory)      *)
(*   "persist" : src/s8.js (POST /api/tts copies the audio to SAVED_DIR)   *)
(* A behaviour is one server process (and its restarts) of one variant,    *)
(* handling up to MaxReq requests.  Each await of a handler is a position  *)
(* pc[r]; each action is one synchronous segment of JavaScript, run to     *)
(* completion as the single-threaded event loop runs it.                   *)
(***************************************************************************)
EXTENDS Integers, Sequences, FiniteSets, TLC

(* ------------------------------ bounds -------------------------------- *)
MaxReq == 2
MaxRestarts == 1
MaxUnlinkFail == 1
MaxFaults == 1
MaxNameIndex == 1

Requests == 1..MaxReq

(* --------------------------- JavaScript values ------------------------ *)
\* A JSON body field: its type, its text (strings, numbers), its length and
\* whether a string is made of whitespace only.
Undefined == [t |-> "undefined", s |-> "", len |-> 0, blank |-> FALSE]
Str(s, n) == [t |-> "string", s |-> s, len |-> n, blank |-> FALSE]
Blank(n) == [t |-> "string", s |-> " ", len |-> n, blank |-> TRUE]
Num(s) == [t |-> "number", s |-> s, len |-> 0, blank |-> FALSE]
Obj == [t |-> "object", s |-> "{}", len |-> 0, blank |-> FALSE]
\* A member of Object.prototype found by a property lookup on a plain object.
ProtoMember == [t |-> "function", s |-> "Object", len |-> 0, blank |-> FALSE]

\* !!v
Truthy(v) ==
    CASE v.t = "undefined" -> FALSE
      [] v.t = "string" -> v.len > 0
      [] v.t = "number" -> v.s # "0"
      [] OTHER -> TRUE

\* v || d
OrDefault(v, d) == IF Truthy(v) THEN v ELSE d

\* String.prototype.trim() leaves nothing exactly for whitespace-only text.
TrimIsEmpty(v) == v.len = 0 \/ v.blank

\* String.prototype.toLowerCase() on the strings the model sends.
LowerTable ==
    [EN |-> "en", English |-> "english", WAV |-> "wav", MP3 |-> "mp3",
     Klingon |-> "klingon"]
ToLowerCase(v) ==
    IF v.s \in DOMAIN LowerTable THEN [v EXCEPT !.s = LowerTable[v.s]] ELSE v

(* ------------------------------ constants ----------------------------- *)
MaxTextLen == 5000
SweepAgeMs == 3600000
\* One tick of the model's clock, in milliseconds: the age the sweep tests.
TickMs == SweepAgeMs
\* The first age, in ticks, that the sweep finds old: ages are counted up to
\* it, a file that is old stays old.
MaxAge == (SweepAgeMs \div TickMs) + 1

Variants == {"stream", "t2a", "persist"}

\* Mutant of LANGUAGE_MAP_FULL: one full name resolves to a code that is no key.
LANGUAGE_MAP_ODD ==
    [english |-> "en", hindi |-> "hi", arabic |-> "ar", telugu |-> "tl",
     bengali |-> "bn", urdu |-> "ur", spanish |-> "es",
     en |-> "en", hi |-> "hi", ar |-> "ar", te |-> "te", bn |-> "bn",
     ur |-> "ur", es |-> "es"]

LANGUAGE_MAP_FULL ==
    [english |-> "en", hindi |-> "hi", arabic |-> "ar", telugu |-> "te",
     bengali |-> "bn", urdu |-> "ur", spanish |-> "es",
     en |-> "en", hi |-> "hi", ar |-> "ar", te |-> "te", bn |-> "bn",
     ur |-> "ur", es |-> "es"]
LANGUAGE_MAP_T2A ==
    [hindi |-> "hi", english |-> "en", hi |-> "hi", en |-> "en"]
LANGUAGE_MAP(v) == IF v = "t2a" THEN LANGUAGE_MAP_T2A ELSE LANGUAGE_MAP_FULL

LANGUAGE_NAMES ==
    [en |-> "English", hi |-> "Hindi", ar |-> "Arabic", te |-> "Telugu",
     bn |-> "Bengali", ur |-> "Urdu", es |-> "Spanish"]

\* The display names of each program: the t2a program defines no
\* LANGUAGE_NAMES and reports no language name.
DisplayNames(v) == IF v = "t2a" THEN [c \in {} |-> ""] ELSE LANGUAGE_NAMES

SUPPORTED_FORMATS == {"mp3", "wav"}

\* Names every plain object inherits from Object.prototype.
ProtoKeys == {"constructor", "toString", "valueOf", "hasOwnProperty", "__proto__"}

\* obj[key] for a plain object literal: own properties, then the prototype.
Lookup(obj, key) ==
    IF key \in DOMAIN obj THEN Str(obj[key], 2)
    ELSE IF key \in ProtoKeys THEN ProtoMember
    ELSE Undefined

\* Mutant of validateText: the length test alone.
validateLength(text) ==
    IF text.len > MaxTextLen THEN "Text too long (max 5000 chars)" ELSE ""

\* validateText(text): the error message, or "" for null.
validateText(text) ==
    IF ~Truthy(text) \/ text.t # "string" \/ TrimIsEmpty(text) THEN "Invalid text"
    ELSE IF text.len > MaxTextLen THEN "Text too long (max 5000 chars)"
    ELSE ""


(* ------------------------------ requests ------------------------------ *)
\* The bodies the model sends.  "tts" is POST /api/tts; "json" is POST
\* /api/tts/complete (stream) or POST /api/tts/json (t2a).
TextValues ==
    {Undefined, Str("", 0), Blank(2), Blank(MaxTextLen + 1), Str("Hello", 5),
     Str("long", MaxTextLen), Str("long", MaxTextLen + 1), Num("0"), Num("123"), Obj}
LangValues ==
    {Undefined, Str("english", 7), Str("EN", 2), Str("telugu", 6),
     Str("klingon", 7), Str("Klingon", 7), Str("constructor", 11), Num("5")}
FileValues == {Undefined, Str("mp3", 3), Str("WAV", 3), Str("ogg", 3), Num("5")}
Endpoints(v) == IF v = "persist" THEN {"tts"} ELSE {"tts", "json"}

WideBodies(v) ==
    [ep : Endpoints(v), text : TextValues, lang : LangValues, file : FileValues]
\* Well-formed bodies, for the runs with concurrent requests.
NarrowBodies(v) ==
    [ep : Endpoints(v), text : {Str("Hello", 5)}, lang : {Undefined},
     file : {Undefined, Str("WAV", 3)}]

\* The temporary paths of request r: path.join(TEMP_DIR, `${fileId}.mp3|wav`).
\* uuidv4() is modelled as never repeating: the request number stands for it.
Mp3Path(r) == <<r, "mp3">>
WavPath(r) == <<r, "wav">>
Paths == Requests \X {"mp3", "wav"}

\* What the client has got: the status, the error message of a JSON error
\* document, the duration it reports, the content type and the temporary
\* path whose bytes are sent.
NoResp ==
    [status |-> 0, error |-> "", detail |-> "", duration |-> "none",
     mime |-> "", sent |-> <<>>, n |-> 0]
Resp(st, e, d) == [NoResp EXCEPT !.status = st, !.error = e, !.detail = d]
\* A response head goes out on a connection that has had prev: res.json,
\* or the first bytes of a pipe.  n counts the heads sent.
Send(prev, new) == [new EXCEPT !.n = prev.n + 1]

VARIABLES
    variant,    \* which of the three server programs runs
    up,         \* the process is running
    restarts,   \* how many times the process was started again
    fileIndex,  \* let fileIndex = 1
    tempDir,    \* the paths that exist in TEMP_DIR
    age,        \* now - stats.mtimeMs of each existing path, in ticks, up to MaxAge
    savedDir,   \* SAVED_DIR: display filename -> <<request whose bytes it holds>>
    req,        \* req.body and the route of each request
    pc,         \* where each request's handler stands
    tempFiles,  \* const tempFiles = [] of each request
    idx,        \* the index each request took from fileIndex, with its process
    resp,       \* what the client has been sent
    trace,      \* history: the stages each request has gone through
    lookup      \* the GET /audio/:filename or GET /api/duration/:filename request

vars ==
    <<variant, up, restarts, fileIndex, tempDir, age, savedDir, req, pc,
      tempFiles, idx, resp, trace, lookup>>

\* Display filenames that may exist in SAVED_DIR: `tts_${fileIndex}.${format}`.
SavedNames == (1..(MaxReq + 1)) \X SUPPORTED_FORMATS
NoFile == <<>>

(* ----------------------------- GET routes ------------------------------ *)
\* req.params.filename.  Express decodes the parameter, so that "..%2F" in
\* the URL arrives as "../": path.join(DIR, filename) then names a file of
\* the directory above, where the program's own source file exists.
\* Plain(n) is a display filename, `t2a_${i}.${format}` or `tts_${i}.${format}`;
\* TempName(p) is the name of a temporary path, `${fileId}.mp3` or `.wav`.
Plain(n) == [outside |-> FALSE, uuid |-> FALSE, base |-> n]
TempName(p) == [outside |-> FALSE, uuid |-> TRUE, base |-> p]
Missing == Plain(<<0, "mp3">>)
Traversal == [outside |-> TRUE, uuid |-> FALSE, base |-> <<0, "js">>]
FileNames ==
    {Plain(n) : n \in (1..MaxNameIndex) \X SUPPORTED_FORMATS}
        \cup {TempName(p) : p \in (1..MaxNameIndex) \X SUPPORTED_FORMATS}
        \cup {Missing, Traversal}

\* The directory a GET route looks in: TEMP_DIR (stream), whose files have the
\* temporary names, or SAVED_DIR (persist), whose files have display names.
Listing ==
    IF variant = "persist"
    THEN {Plain(n) : n \in {m \in SavedNames : savedDir[m] # NoFile}}
    ELSE {TempName(p) : p \in tempDir}
\* fs.existsSync(path.join(DIR, filename))
ExistsSync(fn) == fn.outside \/ fn \in Listing
\* The bytes a read of path.join(DIR, filename) yields: the request whose
\* audio the file holds, or the program's source.
Bytes(fn) ==
    IF fn.outside THEN <<"source">>
    ELSE IF variant = "persist" THEN savedDir[fn.base]
    ELSE <<fn.base[1]>>
\* path.extname(filename).toLowerCase()
ExtName(fn) == fn.base[2]

NoLookup ==
    [route |-> "none", pc |-> "idle", name |-> Missing, indir |-> FALSE,
     status |-> 0, error |-> "", mime |-> "", bytes |-> <<>>, probed |-> FALSE,
     after |-> {}, live |-> {}, n |-> 0]

InFlight(q) == pc[q] \in {"synth", "transcode", "probe", "streaming", "timer"}
Terminated(q) == pc[q] \in {"done", "aborted", "hung"}

(* ----------------------------- validation ----------------------------- *)
Verdict(k, e, d) == [kind |-> k, error |-> e, detail |-> d]
\* (x || dflt).toLowerCase() throws a TypeError when x is truthy and no string.
LowerThrows(x) == Truthy(x) /\ x.t # "string"
Language(b) == ToLowerCase(OrDefault(b.lang, Str("english", 7)))
Format(b) == ToLowerCase(OrDefault(b.file, Str("mp3", 3)))

\* POST /api/tts of the stream and persist programs, up to the format check.
ValidateTts(v, b) ==
    IF validateText(b.text) # "" THEN Verdict("reject", validateText(b.text), "")
    ELSE IF LowerThrows(b.lang) \/ LowerThrows(b.file) THEN Verdict("throw", "TypeError", "")
    ELSE IF ~Truthy(Lookup(LANGUAGE_MAP(v), Language(b).s))
        THEN Verdict("reject", "Unsupported language", "")
    ELSE IF Format(b).s \notin SUPPORTED_FORMATS
        THEN Verdict("reject", "Unsupported format", "")
    ELSE Verdict("ok", "", "")

\* POST /api/tts/complete: the text check only.
ValidateComplete(v, b) ==
    IF validateText(b.text) # "" THEN Verdict("reject", validateText(b.text), "")
    ELSE IF LowerThrows(b.lang) \/ LowerThrows(b.file) THEN Verdict("throw", "TypeError", "")
    ELSE Verdict("ok", "", "")

\* POST /api/tts and POST /api/tts/json of the t2a program.
ValidateT2a(v, b) ==
    IF ~Truthy(b.text)
        THEN Verdict("reject", "Text field is required and cannot be empty", "")
    ELSE IF b.text.t # "string" THEN Verdict("throw", "TypeError", "")
    ELSE IF TrimIsEmpty(b.text)
        THEN Verdict("reject", "Text field is required and cannot be empty", "")
    ELSE IF LowerThrows(b.lang) \/ LowerThrows(b.file) THEN Verdict("throw", "TypeError", "")
    ELSE IF ~Truthy(Lookup(LANGUAGE_MAP(v), Language(b).s))
        THEN Verdict("reject", "Unsupported language: ", Language(b).s)
    ELSE IF Format(b).s \notin SUPPORTED_FORMATS
        THEN Verdict("reject", "Unsupported file format: ", Format(b).s)
    ELSE Verdict("ok", "", "")

Validate(v, b) ==
    IF v = "t2a" THEN ValidateT2a(v, b)
    ELSE IF v = "stream" /\ b.ep = "json" THEN ValidateComplete(v, b)
    ELSE ValidateTts(v, b)

\* const langCode = LANGUAGE_MAP[language]
LangCode(v, b) == Lookup(LANGUAGE_MAP(v), Language(b).s)

\* Mutant of NeedsTranscode: the transcoder runs for every format.
AlwaysTranscode(fmt) == fmt = fmt

\* if (format === 'wav')
NeedsTranscode(fmt) == fmt = "wav"

FormatOf(r) == Format(req[r]).s
OutputPath(r) == IF NeedsTranscode(FormatOf(r)) THEN WavPath(r) ELSE Mp3Path(r)

\* Mutant of MimeType: the content type is never changed from its first value.
AlwaysMpeg(fmt) == "audio/mpeg"

\* let mimeType = 'audio/mpeg'; if (format === 'wav') { ... mimeType = 'audio/wav' }
MimeType(fmt) == IF NeedsTranscode(fmt) THEN "audio/wav" ELSE "audio/mpeg"

\* Mutant of NextIndex: the counter is read and not advanced.
StaleIndex(i) == i

\* fileIndex++
NextIndex(i) == i + 1

(* ------------------------ deleting temporary files -------------------- *)
CountIn(sq, e) == Cardinality({i \in DOMAIN sq : sq[i] = e})
\* How many events of the set E the requests have recorded so far.
CountAll(E) ==
    LET RECURSIVE Sum(_)
        Sum(S) == IF S = {} THEN 0
                  ELSE LET q == CHOOSE x \in S : TRUE
                       IN Cardinality({i \in DOMAIN trace[q] : trace[q][i] \in E})
                          + Sum(S \ {q})
    IN Sum(Requests)
\* The unlinkSync calls that have thrown so far, over all requests.
UnlinkFailures == CountAll({"UnlinkThrow"})
\* The environment may fail an external call (the speech engine, ffmpeg,
\* ffprobe), the read stream or the client connection: at most MaxFaults
\* times in a behaviour.
FaultsLeft ==
    CountAll({"SynthFail", "TranscodeFail", "ProbeFail", "StreamError", "Disconnect"})
        < MaxFaults
\* The paths of request r whose unlinkSync throws (EPERM, EBUSY, EACCES) in
\* the segment that runs now: chosen by the environment, at most MaxUnlinkFail
\* throws in a behaviour.
BadSets(r) ==
    {{}} \cup (IF UnlinkFailures < MaxUnlinkFail
               THEN {{f} : f \in {Mp3Path(r), WavPath(r)}} ELSE {})

\* tempFiles.forEach(f => fs.existsSync(f) && fs.unlinkSync(f)): the first
\* throw ends the loop.
RECURSIVE ReleaseLoop(_, _, _)
ReleaseLoop(fs, dir, bad) ==
    IF fs = <<>> THEN [dir |-> dir, threw |-> FALSE]
    ELSE IF Head(fs) \in dir /\ Head(fs) \in bad THEN [dir |-> dir, threw |-> TRUE]
    ELSE ReleaseLoop(Tail(fs), dir \ {Head(fs)}, bad)

\* tempFiles.forEach(file => { try { if (existsSync) unlinkSync } catch {} })
GuardedLoop(fs, dir, bad) ==
    [dir |-> dir \ ({fs[i] : i \in DOMAIN fs} \ bad),
     threw |-> \E i \in DOMAIN fs : fs[i] \in dir /\ fs[i] \in bad]

(* ------------------------- one synchronous segment -------------------- *)
\* What a segment of request r's handler has done so far.
Base(r) ==
    [pc |-> pc[r], dir |-> tempDir, created |-> {}, saved |-> savedDir,
     tf |-> tempFiles[r], resp |-> resp[r], ev |-> <<>>, crash |-> FALSE,
     fi |-> fileIndex, ix |-> idx[r]]

Apply(r, o) ==
    /\ pc' = [q \in Requests |->
                IF q = r THEN o.pc
                ELSE IF o.crash /\ InFlight(q) THEN "killed" ELSE pc[q]]
    /\ up' = ~o.crash
    /\ tempDir' = o.dir
    /\ age' = [f \in Paths |-> IF f \in o.created \/ f \notin o.dir THEN 0 ELSE age[f]]
    /\ savedDir' = o.saved
    /\ tempFiles' = [tempFiles EXCEPT ![r] = o.tf]
    /\ resp' = [resp EXCEPT ![r] = o.resp]
    /\ trace' = [trace EXCEPT ![r] = @ \o o.ev]
    /\ fileIndex' = o.fi
    /\ idx' = [idx EXCEPT ![r] = o.ix]
    /\ UNCHANGED <<variant, restarts, req, lookup>>

\* The catch block of the stream program's handlers: an unguarded delete
\* loop, then the 500.  A throw of unlinkSync leaves the async handler as a
\* rejected promise nobody handles: no response is sent, and the process
\* ends or not with the Node version.
CatchStream(r, c, bad) ==
    LET lp == ReleaseLoop(c.tf, c.dir, bad) IN
    IF lp.threw
    THEN {[c EXCEPT !.dir = lp.dir, !.pc = "hung", !.crash = cr,
                    !.ev = @ \o <<"CatchRelease", "UnlinkThrow", "Uncaught">>]
          : cr \in BOOLEAN}
    ELSE {[c EXCEPT !.dir = lp.dir, !.pc = "done",
                    !.resp = Send(@, Resp(500, "Internal Server Error", "")),
                    !.ev = @ \o <<"CatchRelease", "Error500">>]}

\* The catch block of the t2a program's handlers: a guarded delete loop,
\* then the 500 (POST /api/tts: unless the headers were sent).
CatchT2a(r, c, bad) ==
    LET lp == GuardedLoop(c.tf, c.dir, bad)
        rel == IF lp.threw THEN <<"CatchRelease", "UnlinkThrow">> ELSE <<"CatchRelease">>
    IN
    IF req[r].ep = "tts" /\ c.resp.status # 0
    THEN {[c EXCEPT !.dir = lp.dir, !.pc = "hung", !.ev = @ \o rel]}
    ELSE {[c EXCEPT !.dir = lp.dir, !.pc = "done",
                    !.resp = Send(@, Resp(500, "Internal server error", "")),
                    !.ev = @ \o rel \o <<"Error500">>]}

\* The catch block of the persist program: the 500 alone.
CatchPersist(r, c, bad) ==
    {[c EXCEPT !.pc = "done", !.resp = Send(@, Resp(500, "err.message", "")),
               !.ev = @ \o <<"Error500">>]}

Catch(r, c, bad) ==
    IF variant = "stream" THEN CatchStream(r, c, bad)
    ELSE IF variant = "t2a" THEN CatchT2a(r, c, bad)
    ELSE CatchPersist(r, c, bad)

(* -------------------------------- Init -------------------------------- *)
\* One request with any body, or MaxReq concurrent requests with well-formed
\* bodies.  A request that is not sent stays "off".
InitCommon ==
    /\ variant \in Variants
    /\ up = TRUE
    /\ restarts = 0
    /\ fileIndex = 1
    /\ tempDir = {}
    /\ age = [f \in Paths |-> 0]
    /\ savedDir = [n \in SavedNames |-> NoFile]
    /\ tempFiles = [r \in Requests |-> <<>>]
    /\ idx = [r \in Requests |-> <<0, 0>>]
    /\ resp = [r \in Requests |-> NoResp]
    /\ trace = [r \in Requests |-> <<>>]
    /\ lookup = NoLookup

InitWide ==
    /\ InitCommon
    /\ pc = [r \in Requests |-> IF r = 1 THEN "new" ELSE "off"]
    /\ \E b \in WideBodies(variant) : req = [r \in Requests |-> b]

InitConc ==
    /\ InitCommon
    /\ pc = [r \in Requests |-> "new"]
    /\ req \in [Requests -> NarrowBodies(variant)]

Init == InitWide \/ InitConc

(* ------------------------------ handlers ------------------------------ *)
\* Mutant of EarlyReturn: the index is taken before the checks.
ReturnAfterIndex(c, v) ==
    {[c EXCEPT !.pc = "done", !.resp = Send(@, Resp(400, v.error, v.detail)),
               !.fi = c.fi + 1, !.ev = <<"Reject">>]}

\* return res.status(400).json({ error }): nothing else has run.
EarlyReturn(c, v) ==
    {[c EXCEPT !.pc = "done", !.resp = Send(@, Resp(400, v.error, v.detail)),
               !.ev = <<"Reject">>]}

\* The handler of a synthesis route, from its entry to its first await:
\* validation, fileIndex++, tempFiles.push(mp3Path), generateSpeech started.
ReceiveOutcomes(r, bad) ==
    LET v == Validate(variant, req[r])
        c == Base(r)
    IN
    IF v.kind = "reject" THEN EarlyReturn(c, v)
    ELSE IF v.kind = "throw"
    THEN Catch(r, [c EXCEPT !.ev = <<"Throw">>], bad)
    ELSE {[c EXCEPT !.pc = "synth",
                    !.fi = NextIndex(fileIndex),
                    !.ix = <<restarts, fileIndex>>,
                    !.tf = IF variant = "persist" THEN <<>> ELSE <<Mp3Path(r)>>,
                    !.ev = <<"Validate", "Synthesize">>]}

\* Requests are numbered in the order in which their handlers are entered.
Receive(r) ==
    /\ up
    /\ pc[r] = "new"
    /\ \A q \in 1..(r - 1) : pc[q] # "new"
    /\ \E o \in ReceiveOutcomes(r, {}) : Apply(r, o)

\* persist: copyFileSync(finalPath, savePath); unlinkSync(finalPath); then the
\* probe of the saved copy is started.  copyFileSync replaces an existing file.
PersistSegment(r, c, finalPath, bad) ==
    LET name == <<c.ix[2], FormatOf(r)>>
        c1 == [c EXCEPT !.saved = [@ EXCEPT ![name] = <<r>>], !.ev = @ \o <<"Persist", "Release">>]
    IN
    IF finalPath \in bad
    THEN Catch(r, [c1 EXCEPT !.ev = @ \o <<"UnlinkThrow">>], bad)
    ELSE {[c1 EXCEPT !.dir = @ \ {finalPath}, !.pc = "probe", !.ev = @ \o <<"Probe">>]}

\* The audio file of the request is ready at outputPath: what runs up to the
\* await of getAudioDuration.
AfterAudioReady(r, c, outputPath, bad) ==
    IF variant = "persist" THEN PersistSegment(r, c, outputPath, bad)
    ELSE IF variant = "t2a" /\ outputPath \notin c.dir
    THEN Catch(r, [c EXCEPT !.ev = @ \o <<"Throw">>], bad)
    ELSE {[c EXCEPT !.pc = "probe", !.ev = @ \o <<"Probe">>]}

\* gtts(langCode) takes a language string (or none, for its default); any
\* other value makes it throw.
CanSynthSucceed(code) == code.t \in {"string", "undefined"}

\* generateSpeech settles.  On failure the engine may leave a partial file.
SynthOutcomes(r, ok, partial, bad) ==
    LET c == Base(r) IN
    IF ok
    THEN LET c1 == [c EXCEPT !.dir = @ \cup {Mp3Path(r)}, !.created = {Mp3Path(r)}] IN
         IF NeedsTranscode(FormatOf(r))
         THEN {[c1 EXCEPT !.pc = "transcode",
                          !.tf = IF variant = "t2a" THEN Append(@, WavPath(r)) ELSE @,
                          !.ev = @ \o <<"Transcode">>]}
         ELSE AfterAudioReady(r, c1, Mp3Path(r), bad)
    ELSE LET made == IF partial THEN {Mp3Path(r)} ELSE {} IN
         Catch(r, [c EXCEPT !.dir = @ \cup made, !.created = made,
                            !.ev = @ \o <<"SynthFail">>], bad)

SynthDone(r) ==
    /\ up
    /\ pc[r] = "synth"
    /\ \E ok \in BOOLEAN, partial \in BOOLEAN, bad \in BadSets(r) :
         /\ ok => CanSynthSucceed(LangCode(variant, req[r])) /\ ~partial
         /\ ~ok => FaultsLeft
         /\ \E o \in SynthOutcomes(r, ok, partial, bad) : Apply(r, o)

\* convertToWav settles.  On failure ffmpeg may leave a partial .wav.
TranscodeOutcomes(r, ok, partial, bad) ==
    LET c == Base(r) IN
    IF ok
    THEN LET c1 == [c EXCEPT !.dir = @ \cup {WavPath(r)}, !.created = {WavPath(r)},
                             !.tf = IF variant = "stream" THEN Append(@, WavPath(r)) ELSE @]
         IN
         IF variant = "persist"
         THEN \* fs.unlinkSync(tempMp3)
              IF Mp3Path(r) \in bad \/ Mp3Path(r) \notin c1.dir
              THEN Catch(r, [c1 EXCEPT !.ev = @ \o <<"UnlinkThrow">>], bad)
              ELSE AfterAudioReady(r, [c1 EXCEPT !.dir = @ \ {Mp3Path(r)}], WavPath(r), bad)
         ELSE AfterAudioReady(r, c1, WavPath(r), bad)
    ELSE LET made == IF partial THEN {WavPath(r)} ELSE {} IN
         Catch(r, [c EXCEPT !.dir = @ \cup made, !.created = made,
                            !.ev = @ \o <<"TranscodeFail">>], bad)

TranscodeDone(r) ==
    /\ up
    /\ pc[r] = "transcode"
    /\ \E ok \in BOOLEAN, partial \in BOOLEAN, bad \in BadSets(r) :
         /\ ok => ~partial
         /\ ~ok => FaultsLeft
         /\ \E o \in TranscodeOutcomes(r, ok, partial, bad) : Apply(r, o)

\* The success response: status 200 with the duration it reports.
Ok200(dur) == [NoResp EXCEPT !.status = 200, !.duration = dur]
\* The headers or the envelope of the audio of request r: the duration,
\* mimeType and the bytes of outputPath.
Audio(r, dur) ==
    [NoResp EXCEPT !.duration = dur, !.mime = MimeType(FormatOf(r)), !.sent = OutputPath(r)]

\* getAudioDuration settles in the stream program: a failed probe resolves to
\* the fallback.  POST /api/tts then stats the file and pipes it; POST
\* /api/tts/complete stats and reads it, answers and arms the 1 s timer.
ProbeStream(r, ok, bad) ==
    LET c == Base(r)
        dur == IF ok THEN "probed" ELSE "fallback"
        pf == IF ok THEN <<>> ELSE <<"ProbeFail">>
    IN
    IF OutputPath(r) \notin c.dir
    THEN Catch(r, [c EXCEPT !.ev = @ \o pf \o <<"Throw">>], bad)
    ELSE IF req[r].ep = "tts"
    THEN {[c EXCEPT !.pc = "streaming", !.resp = Audio(r, dur),
                    !.ev = @ \o pf \o <<"Emit">>]}
    ELSE {[c EXCEPT !.pc = "timer", !.resp = Send(@, [Audio(r, dur) EXCEPT !.status = 200]),
                    !.ev = @ \o pf \o <<"Emit">>]}

\* getAudioDuration settles in the t2a program: a failed probe rejects.  POST
\* /api/tts sets the headers and pipes the file (a file that is gone makes
\* the stream emit 'error' before any header is sent); POST /api/tts/json
\* reads the file, answers and arms the timer.
ProbeT2a(r, ok, bad) ==
    LET c == Base(r) IN
    IF ~ok THEN Catch(r, [c EXCEPT !.ev = @ \o <<"ProbeFail">>], bad)
    ELSE IF req[r].ep = "tts"
    THEN IF OutputPath(r) \notin c.dir
         THEN {[c EXCEPT !.pc = "timer", !.resp = Send(@, Resp(500, "Error reading file", "")),
                         !.ev = @ \o <<"StreamError", "Error500">>]}
         ELSE {[c EXCEPT !.pc = "streaming", !.resp = Audio(r, "probed"),
                         !.ev = @ \o <<"Emit">>]}
    ELSE IF OutputPath(r) \notin c.dir
         THEN Catch(r, [c EXCEPT !.ev = @ \o <<"Throw">>], bad)
         ELSE {[c EXCEPT !.pc = "timer", !.resp = Send(@, [Audio(r, "probed") EXCEPT !.status = 200]),
                         !.ev = @ \o <<"Emit">>]}

\* getAudioDuration(savePath) settles in the persist program: statSync of the
\* saved copy, then the JSON answer.
ProbePersist(r, ok, bad) ==
    LET c == Base(r)
        dur == IF ok THEN "probed" ELSE "fallback"
        pf == IF ok THEN <<>> ELSE <<"ProbeFail">>
    IN
    IF c.saved[<<c.ix[2], FormatOf(r)>>] = NoFile
    THEN Catch(r, [c EXCEPT !.ev = @ \o pf \o <<"Throw">>], bad)
    ELSE {[c EXCEPT !.pc = "done", !.resp = Send(@, Ok200(dur)), !.ev = @ \o pf \o <<"Emit">>]}

ProbeOutcomes(r, ok, bad) ==
    IF variant = "stream" THEN ProbeStream(r, ok, bad)
    ELSE IF variant = "t2a" THEN ProbeT2a(r, ok, bad)
    ELSE ProbePersist(r, ok, bad)

ProbeDone(r) ==
    /\ up
    /\ pc[r] = "probe"
    /\ \E ok \in BOOLEAN, bad \in BadSets(r) :
         /\ ~ok => FaultsLeft
         /\ \E o \in ProbeOutcomes(r, ok, bad) : Apply(r, o)

\* The response has been handed to the transport: 'finish' arms the timer.
StreamFinish(r) ==
    /\ up
    /\ pc[r] = "streaming"
    /\ Apply(r, [Base(r) EXCEPT !.pc = "timer", !.resp = Send(@, [@ EXCEPT !.status = 200]),
                                !.ev = <<"Finish">>])

\* The client closes the connection while the file is piped: 'finish' is
\* never emitted, so no timer is armed.
ClientDisconnect(r) ==
    /\ up
    /\ pc[r] = "streaming"
    /\ FaultsLeft
    /\ Apply(r, [Base(r) EXCEPT !.pc = "aborted", !.ev = <<"Disconnect">>])

\* Mutant of StreamErrorOutcomes: the listener answers 500 without the test
\* of res.headersSent.
StreamErrorAnswers(r, sent) ==
    LET c == Base(r)
        head == IF sent THEN Send(c.resp, [c.resp EXCEPT !.status = 200]) ELSE c.resp
    IN
    [c EXCEPT !.pc = "timer", !.resp = Send(head, Resp(500, "Error reading file", "")),
              !.ev = <<"StreamError", "Error500">>]

\* The read stream emits 'error' while it is piped.  stream: nothing listens,
\* the process ends on the uncaught 'error'.  t2a: the listener answers 500
\* if no header was sent yet (and the response finishes), else does nothing:
\* the response that has begun is never ended.
StreamErrorOutcomes(r, sent) ==
    LET c == Base(r) IN
    IF variant = "stream"
    THEN [c EXCEPT !.pc = "hung", !.crash = TRUE, !.ev = <<"StreamError", "Uncaught">>]
    ELSE IF sent
    THEN [c EXCEPT !.pc = "hung", !.ev = <<"StreamError">>,
                   !.resp = Send(@, [@ EXCEPT !.status = 200, !.detail = "truncated"])]
    ELSE [c EXCEPT !.pc = "timer", !.resp = Send(@, Resp(500, "Error reading file", "")),
                   !.ev = <<"StreamError", "Error500">>]

StreamError(r) ==
    /\ up
    /\ pc[r] = "streaming"
    /\ FaultsLeft
    /\ \E sent \in BOOLEAN : Apply(r, StreamErrorOutcomes(r, sent))

\* The 1 s timer fires: the deferred delete loop.  stream: unguarded, a throw
\* is an uncaught exception of the timer callback and ends the process.
TimerOutcomes(r, bad) ==
    LET c == Base(r) IN
    IF variant = "stream"
    THEN LET lp == ReleaseLoop(c.tf, c.dir, bad) IN
         IF lp.threw
         THEN [c EXCEPT !.dir = lp.dir, !.pc = "done", !.crash = TRUE,
                        !.ev = <<"Release", "UnlinkThrow", "Uncaught">>]
         ELSE [c EXCEPT !.dir = lp.dir, !.pc = "done", !.ev = <<"Release">>]
    ELSE LET lp == GuardedLoop(c.tf, c.dir, bad) IN
         [c EXCEPT !.dir = lp.dir, !.pc = "done",
                   !.ev = IF lp.threw THEN <<"Release", "UnlinkThrow">> ELSE <<"Release">>]

TimerFire(r) ==
    /\ up
    /\ pc[r] = "timer"
    /\ \E bad \in BadSets(r) : Apply(r, TimerOutcomes(r, bad))

(* --------------------------- the GET handlers -------------------------- *)
\* The requests that have been answered 200.
Answered == {r \in Requests : resp[r].status = 200}
\* The requests whose audio exists on disk: outputPath in TEMP_DIR, or the
\* copy in SAVED_DIR.
Live ==
    {r \in Requests :
        /\ idx[r][2] >= 1
        /\ IF variant = "persist"
           THEN <<idx[r][2], FormatOf(r)>> \in SavedNames
                /\ savedDir[<<idx[r][2], FormatOf(r)>>] = <<r>>
           ELSE OutputPath(r) \in tempDir}

\* GET /audio/:filename of the persist program: 404, or the content type by
\* the extension and the bytes of the file.
GetAudio(fn) ==
    /\ up
    /\ variant = "persist"
    /\ lookup.route = "none"
    /\ lookup' =
          IF ~ExistsSync(fn)
          THEN [NoLookup EXCEPT !.route = "audio", !.pc = "done", !.name = fn,
                                !.status = 404, !.error = "File not found",
                                !.after = Answered, !.live = Live, !.n = 1]
          ELSE [NoLookup EXCEPT !.route = "audio", !.pc = "done", !.name = fn,
                                !.indir = ~fn.outside, !.status = 200,
                                !.live = Live, !.n = 1,
                                !.mime = IF ExtName(fn) = "wav" THEN "audio/wav"
                                         ELSE "audio/mpeg",
                                !.bytes = Bytes(fn), !.after = Answered]
    /\ UNCHANGED <<variant, up, restarts, fileIndex, tempDir, age, savedDir, req,
                   pc, tempFiles, idx, resp, trace>>

\* GET /api/duration/:filename of the stream and persist programs, up to the
\* call of ffprobe: 404 when existsSync finds nothing.
GetDuration(fn) ==
    /\ up
    /\ variant \in {"stream", "persist"}
    /\ lookup.route = "none"
    /\ lookup' =
          IF ~ExistsSync(fn)
          THEN [NoLookup EXCEPT !.route = "duration", !.pc = "done", !.name = fn,
                                !.status = 404, !.error = "File not found",
                                !.after = Answered, !.live = Live, !.n = 1]
          ELSE [NoLookup EXCEPT !.route = "duration", !.pc = "probing", !.name = fn,
                                !.indir = ~fn.outside, !.probed = TRUE,
                                !.after = Answered, !.live = Live]
    /\ UNCHANGED <<variant, up, restarts, fileIndex, tempDir, age, savedDir, req,
                   pc, tempFiles, idx, resp, trace>>

\* ffprobe calls back.  stream: an error is answered 500; persist:
\* getAudioDuration resolves to the fallback, the answer is 200.  ffprobe
\* finds no duration in a file that holds no audio.
DurationProbed(ok) ==
    /\ up
    /\ lookup.pc = "probing"
    /\ ok => ~lookup.name.outside
    /\ lookup' =
          IF ok \/ variant = "persist"
          THEN [lookup EXCEPT !.pc = "done", !.status = 200, !.n = @ + 1]
          ELSE [lookup EXCEPT !.pc = "done", !.status = 500, !.n = @ + 1,
                              !.error = "Could not read duration"]
    /\ UNCHANGED <<variant, up, restarts, fileIndex, tempDir, age, savedDir, req,
                   pc, tempFiles, idx, resp, trace>>

(* --------------------------- the environment -------------------------- *)
\* if (age > 3600000)
IsOld(a) == a * TickMs > SweepAgeMs

\* Time passes: every existing file is one tick older.  Only the sweep of the
\* t2a program reads the clock; ages are counted up to MaxAge, beyond which
\* a file is old for good.
Tick ==
    /\ variant = "t2a"
    /\ \E f \in tempDir : age[f] < MaxAge
    /\ age' = [f \in Paths |->
                IF f \in tempDir /\ age[f] < MaxAge THEN age[f] + 1 ELSE age[f]]
    /\ UNCHANGED <<variant, up, restarts, fileIndex, tempDir, savedDir, req,
                   pc, tempFiles, idx, resp, trace, lookup>>

\* setInterval of the t2a program: every file of TEMP_DIR older than an hour
\* is deleted (no statSync or unlinkSync of the pass throws).
Sweep ==
    /\ variant = "t2a"
    /\ up
    /\ LET old == {f \in tempDir : IsOld(age[f])} IN
       /\ old # {}
       /\ tempDir' = tempDir \ old
       /\ age' = [f \in Paths |-> IF f \in old THEN 0 ELSE age[f]]
    /\ UNCHANGED <<variant, up, restarts, fileIndex, savedDir, req,
                   pc, tempFiles, idx, resp, trace, lookup>>

\* The process ends (by itself once no request is in flight, or killed by an
\* uncaught exception, see Apply) and is started again: fileIndex is 1 again,
\* SAVED_DIR keeps its files.  The t2a program empties TEMP_DIR in its 'exit'
\* handler when it exits by itself.
Restart ==
    /\ restarts < MaxRestarts
    /\ \A q \in Requests : ~InFlight(q)
    /\ restarts' = restarts + 1
    /\ up' = TRUE
    /\ fileIndex' = 1
    /\ tempDir' \in (IF variant = "t2a" THEN {tempDir, {}} ELSE {tempDir})
    /\ age' = [f \in Paths |-> IF f \in tempDir' THEN age[f] ELSE 0]
    /\ lookup' = IF lookup.pc = "probing" THEN [lookup EXCEPT !.pc = "killed"] ELSE lookup
    /\ UNCHANGED <<variant, savedDir, req, pc, tempFiles, idx, resp, trace>>

Next ==
    \/ \E r \in Requests : Receive(r)
    \/ \E r \in Requests : SynthDone(r)
    \/ \E r \in Requests : TranscodeDone(r)
    \/ \E r \in Requests : ProbeDone(r)
    \/ \E r \in Requests : StreamFinish(r)
    \/ \E r \in Requests : ClientDisconnect(r)
    \/ \E r \in Requests : StreamError(r)
    \/ \E r \in Requests : TimerFire(r)
    \/ \E fn \in FileNames : GetAudio(fn)
    \/ \E fn \in FileNames : GetDuration(fn)
    \/ \E ok \in BOOLEAN : DurationProbed(ok)
    \/ Tick
    \/ Sweep
    \/ Restart

Spec == Init /\ [][Next]_vars

\* The event loop runs every callback that is ready, every external call
\* settles, every timer fires and every pipe ends, one way or another.
Fairness ==
    \A r \in Requests :
        /\ WF_vars(Receive(r))
        /\ WF_vars(SynthDone(r))
        /\ WF_vars(TranscodeDone(r))
        /\ WF_vars(ProbeDone(r))
        /\ WF_vars(StreamFinish(r) \/ ClientDisconnect(r) \/ StreamError(r))
        /\ WF_vars(TimerFire(r))
SpecLive == Spec /\ Fairness

(* ------------------------------- claims ------------------------------- *)
Events(r) == {trace[r][i] : i \in DOMAIN trace[r]}
FilesOf(r) == {Mp3Path(r), WavPath(r)} \cap tempDir
\* The handler of r has run, or is running.
Handled(r) == pc[r] \notin {"new", "off"}
\* The request passed the validation of its route.
Validated(r) == "Validate" \in Events(r)

\* C1: once a request has terminated (its response is complete or its client
\* is gone, and no cleanup timer is pending), none of its temporary files
\* exists.  Stated for the requests none of whose deletes threw.
C1_NoTempFileRemains ==
    \A r \in Requests :
        (pc[r] \in {"done", "aborted"} /\ "UnlinkThrow" \notin Events(r))
            => FilesOf(r) = {}

\* C2: a request that passed validation and has terminated has run the
\* release of its temporary files (deferred or in the catch block; in the
\* persist program, its unlink calls) exactly once.
ReleaseCount(r) == CountIn(trace[r], "Release") + CountIn(trace[r], "CatchRelease")
C2_ReleasedExactlyOnce ==
    \A r \in Requests :
        (pc[r] \in {"done", "aborted"} /\ Validated(r)) => ReleaseCount(r) = 1

\* C3: no step deletes the file that a response stream is reading, the stream
\* being in flight before and after the step.
C3_NoDeleteWhileRead ==
    [][\A r \in Requests :
          (pc[r] = "streaming" /\ pc'[r] = "streaming" /\ OutputPath(r) \in tempDir)
              => OutputPath(r) \in tempDir']_vars

\* C4: fileIndex has grown by exactly 1 for each request of this process that
\* passed validation, and no two requests of one process hold the same index.
ValidatedHere == {r \in Requests : Validated(r) /\ idx[r][1] = restarts}
C4_IndexUnique ==
    /\ fileIndex = 1 + Cardinality(ValidatedHere)
    /\ \A r1, r2 \in Requests :
          (r1 # r2 /\ Validated(r1) /\ Validated(r2) /\ idx[r1][1] = idx[r2][1])
              => idx[r1][2] # idx[r2][2]
    /\ \A r \in Requests : Validated(r) => idx[r][2] >= 1

\* Two requests of one process hold their indexes while both are in flight.
C4_Witness ==
    /\ InFlight(1) /\ InFlight(2)
    /\ idx[1][1] = idx[2][1]
    /\ {idx[1][2], idx[2][2]} = {1, 2}

\* C5: a file of SAVED_DIR is never written again, restarts included.
C5_AppendOnly ==
    [][\A n \in SavedNames :
          savedDir[n] # NoFile => savedDir'[n] = savedDir[n]]_vars

\* The pipeline stages a request went through, in the order they started.
StageNames == {"Validate", "Synthesize", "Transcode", "Persist", "Probe", "Emit", "Release"}
IsStage(e) == e \in StageNames
StagesOf(r) == SelectSeq(trace[r], IsStage)
Ordered(sq, rank) ==
    \A i, j \in DOMAIN sq : i < j => rank[sq[i]] < rank[sq[j]]
\* The transcoder runs for wav alone, and the probe of a wav request follows it.
TranscodeIffWav(r) ==
    /\ "Transcode" \in Events(r) => FormatOf(r) = "wav"
    /\ ("Probe" \in Events(r) /\ FormatOf(r) = "wav") => "Transcode" \in Events(r)

\* Validate, Synthesize, (Transcode), Probe, Emit, Release.
SpecRank ==
    [Validate |-> 1, Synthesize |-> 2, Transcode |-> 3, Persist |-> 4, Probe |-> 4,
     Emit |-> 5, Release |-> 6]
\* Validate, Synthesize, (Transcode), Persist, Release, Probe, Emit.
PersistRank ==
    [Validate |-> 1, Synthesize |-> 2, Transcode |-> 3, Persist |-> 4, Release |-> 5,
     Probe |-> 6, Emit |-> 7]

FailedStage(r) == {"SynthFail", "TranscodeFail"} \cap Events(r) # {}
C7_FailureAborts ==
    \A r \in Requests :
        (FailedStage(r) /\ "UnlinkThrow" \notin Events(r))
            => /\ {"Probe", "Persist", "Emit"} \cap Events(r) = {}
               /\ FilesOf(r) = {}
               /\ resp[r].status = 500

\* C8: a delete that throws during cleanup is swallowed: it does not escape
\* as an uncaught exception, and the terminated request has the response it
\* would have had: 500 if a stage of it failed, 200 otherwise.
OtherFailure(r) ==
    \/ {"SynthFail", "TranscodeFail", "Throw", "StreamError"} \cap Events(r) # {}
    \/ variant = "t2a" /\ "ProbeFail" \in Events(r)
C8_UnlinkFailureSwallowed ==
    \A r \in Requests :
        "UnlinkThrow" \in Events(r)
            => /\ "Uncaught" \notin Events(r)
               /\ pc[r] \in {"done", "hung"}
                     => resp[r].status = IF OtherFailure(r) THEN 500 ELSE 200

\* C9: a request whose language does not resolve through LANGUAGE_MAP, or
\* whose format is not in SUPPORTED_FORMATS, is answered 400 and never
\* reaches generateSpeech.  Stated for requests whose lang and file are
\* strings or absent, and whose text is valid.
IsText(x) == x.t \in {"string", "undefined"}
UnknownLanguage(r) == LangCode(variant, req[r]) = Undefined
UnknownFormat(r) == FormatOf(r) \notin SUPPORTED_FORMATS
C9_BadLangOrFormatRejected ==
    \A r \in Requests :
        ( /\ Handled(r)
          /\ IsText(req[r].lang) /\ IsText(req[r].file)
          /\ UnknownLanguage(r) \/ UnknownFormat(r) )
            => /\ resp[r].status = 400
               /\ "Synthesize" \notin Events(r)

\* C10: a request whose text is absent, no string, empty or whitespace only
\* is answered 400, and no file is created for it.
BadText(x) == x.t # "string" \/ x.len = 0 \/ x.blank
SavedBy(r) == {n \in SavedNames : savedDir[n] = <<r>>}
C10_BadTextRejected ==
    \A r \in Requests :
        (Handled(r) /\ BadText(req[r].text))
            => /\ resp[r].status = 400
               /\ FilesOf(r) = {}
               /\ SavedBy(r) = {}

\* C11: a request whose text is a string of more than 5000 characters (one
\* that is not whitespace only) is answered 400 with the "too long" error and
\* never reaches generateSpeech, on every synthesis route of every program.
TooLong(x) == x.t = "string" /\ ~x.blank /\ x.len > MaxTextLen
C11_TooLongRejected ==
    \A r \in Requests :
        (Handled(r) /\ TooLong(req[r].text))
            => /\ resp[r].status = 400
               /\ resp[r].error = "Text too long (max 5000 chars)"
               /\ "Synthesize" \notin Events(r)

\* The body {lang: "klingon"}, and the same body with a text.
KlingonAlone(b) ==
    b.ep = "tts" /\ b.text = Undefined /\ b.lang = Str("klingon", 7) /\ b.file = Undefined
KlingonWithText(b) ==
    b.ep = "tts" /\ b.text = Str("Hello", 5) /\ b.lang = Str("klingon", 7) /\ b.file = Undefined
\* The message of the text rule of each program.
TextRuleError ==
    IF variant = "t2a" THEN "Text field is required and cannot be empty" ELSE "Invalid text"

\* C12 as stated: POST /api/tts {lang: "klingon"} is answered 400 with
\* {error: "Unsupported language"}.
C12_KlingonUnsupported ==
    \A r \in Requests :
        (Handled(r) /\ KlingonAlone(req[r]))
            => resp[r].status = 400 /\ resp[r].error = "Unsupported language"

\* C12 amended: POST /api/tts {lang: "klingon"} has no text, and the text
\* rule comes first: it is answered 400 with the error of the text rule.
\* With a valid text, {text: "Hello", lang: "klingon"} is answered 400 with
\* the error of the language rule (the t2a program appends the language).
C12_KlingonAmended ==
    \A r \in Requests :
        /\ (Handled(r) /\ KlingonAlone(req[r]))
              => /\ resp[r].status = 400
                 /\ resp[r].error = TextRuleError
                 /\ "Synthesize" \notin Events(r)
        /\ (Handled(r) /\ KlingonWithText(req[r]))
              => /\ resp[r].status = 400
                 /\ resp[r].error = IF variant = "t2a" THEN "Unsupported language: "
                                     ELSE "Unsupported language"
                 /\ variant = "t2a" => resp[r].detail = "klingon"
                 /\ "Synthesize" \notin Events(r)

\* POST /api/tts {lang: "klingon"} has been answered by the stream program.
C12_Witness ==
    /\ variant = "stream"
    /\ \E r \in Requests :
          KlingonAlone(req[r]) /\ pc[r] = "done" /\ resp[r].status = 400

\* C13: a failure of ffprobe is never surfaced: the request (nothing else
\* of it having failed) is not answered 500 and reports the fallback duration.
C13_ProbeFailureRecovered ==
    \A r \in Requests :
        ( /\ "ProbeFail" \in Events(r)
          /\ {"Throw", "Disconnect", "StreamError", "UnlinkThrow"} \cap Events(r) = {} )
            => /\ resp[r].status # 500
               /\ resp[r].duration = "fallback"

\* The display filename the persist program returned to request r.
FilenameOf(r) == Plain(<<idx[r][2], FormatOf(r)>>)

\* C14: after POST /api/tts of the persist program has answered 200 with
\* filename F, a GET /audio/F streams the bytes of that request's audio, with
\* content type audio/wav for .wav and audio/mpeg otherwise.
C14_RoundTrip ==
    \A r \in Requests :
        ( /\ variant = "persist"
          /\ lookup.route = "audio"
          /\ r \in lookup.after
          /\ lookup.name = FilenameOf(r) )
            => /\ lookup.status = 200
               /\ lookup.bytes = <<r>>
               /\ lookup.mime = IF FormatOf(r) = "wav" THEN "audio/wav" ELSE "audio/mpeg"

\* C15: GET /api/duration/:filename for a filename that names no existing
\* file in the directory of the route is answered 404 "File not found", and
\* ffprobe is not called.
C15_DurationNotFound ==
    (lookup.route = "duration" /\ ~lookup.indir)
        => /\ lookup.status = 404
           /\ lookup.error = "File not found"
           /\ ~lookup.probed

\* The aliases and the canonical codes of a program's directory.
Aliases(v) == DOMAIN LANGUAGE_MAP(v)
Codes(v) == {LANGUAGE_MAP(v)[a] : a \in Aliases(v)}
\* Every alias resolves to a code that is itself an alias resolving to itself.
MapIdempotent(v) ==
    \A a \in Aliases(v) :
        LET c == LANGUAGE_MAP(v)[a] IN c \in Aliases(v) /\ LANGUAGE_MAP(v)[c] = c
\* Every canonical code has a display name, and an alias has that of its code.
CodesNamed(v) == \A c \in Codes(v) : c \in DOMAIN DisplayNames(v)
\* What a handler resolved for a request that sent an alias: langCode is the
\* alias' code, and looking the code up again gives the code.
ResolvedAsListed(r) ==
    (Validated(r) /\ IsText(req[r].lang) /\ Language(req[r]).s \in Aliases(variant))
        => LET c == LangCode(variant, req[r]) IN
           /\ c.t = "string"
           /\ c.s = LANGUAGE_MAP(variant)[Language(req[r]).s]
           /\ Lookup(LANGUAGE_MAP(variant), c.s) = c

\* C16 as stated: in the running program every alias resolves to a canonical
\* code that resolves to itself, and every canonical code has exactly one
\* display name in LANGUAGE_NAMES.
C16_DirectoryConsistent ==
    /\ MapIdempotent(variant)
    /\ CodesNamed(variant)
    /\ \A r \in Requests : ResolvedAsListed(r)

\* C16 amended: the mapping is idempotent in every program; every canonical
\* code has exactly one display name in the programs that define
\* LANGUAGE_NAMES (stream and persist).
C16_DirectoryAmended ==
    /\ MapIdempotent(variant)
    /\ variant # "t2a" => CodesNamed(variant)
    /\ \A r \in Requests : ResolvedAsListed(r)

\* A request that named its language by a full name went through validation.
C16_Witness ==
    /\ variant = "persist"
    /\ \E r \in Requests :
          /\ Validated(r)
          /\ Language(req[r]).s = "telugu"
          /\ LangCode(variant, req[r]).s = "te"

\* The container of the file at a temporary path: the engine writes MP3 to
\* the .mp3 path, ffmpeg writes WAV to the .wav path.
ContainerMime(path) == IF path[2] = "wav" THEN "audio/wav" ELSE "audio/mpeg"

\* C17: in the streamed and JSON-enveloped routes convertToWav runs exactly
\* for the format wav; the audio sent is then the .wav file with audio/wav,
\* otherwise the .mp3 file with audio/mpeg, and the content type is that of
\* the container of the file sent.
C17_ContentTypeMatches ==
    \A r \in Requests :
        /\ TranscodeIffWav(r)
        /\ resp[r].sent # <<>>
              => /\ ("Transcode" \in Events(r)) <=> (FormatOf(r) = "wav")
                 /\ resp[r].sent = IF FormatOf(r) = "wav" THEN WavPath(r) ELSE Mp3Path(r)
                 /\ resp[r].sent \in {Mp3Path(r), WavPath(r)}
                 /\ resp[r].mime = ContainerMime(resp[r].sent)

\* A wav request of the JSON route has been answered with its .wav file.
C17_Witness ==
    \E r \in Requests :
        /\ req[r].ep = "json"
        /\ resp[r].status = 200
        /\ resp[r].sent = WavPath(r)
        /\ resp[r].mime = "audio/wav"

\* The rules of the validator, in their order, and the first one a body fails
\* (0: none).
FailsRule(k, b) ==
    CASE k = 1 -> BadText(b.text)
      [] k = 2 -> b.text.len > MaxTextLen
      [] k = 3 -> ~(IsText(b.lang) /\ Language(b).s \in Aliases(variant))
      [] OTHER -> ~(IsText(b.file) /\ Format(b).s \in SUPPORTED_FORMATS)
FirstFailing(b) ==
    IF \E k \in 1..4 : FailsRule(k, b)
    THEN CHOOSE k \in 1..4 : FailsRule(k, b) /\ \A j \in 1..(k - 1) : ~FailsRule(j, b)
    ELSE 0
\* The rule an error message belongs to.
RuleOf(e) ==
    CASE e \in {"Invalid text", "Text field is required and cannot be empty"} -> 1
      [] e = "Text too long (max 5000 chars)" -> 2
      [] e \in {"Unsupported language", "Unsupported language: "} -> 3
      [] e \in {"Unsupported format", "Unsupported file format: "} -> 4
      [] OTHER -> 0

\* C18: the error of a 400 answer is that of the first rule the body fails,
\* in the order text presence, text length, language, format: no request that
\* fails an earlier rule is answered with the error of a later one.
C18_FirstFailingRuleReported ==
    \A r \in Requests :
        resp[r].status = 400 => RuleOf(resp[r].error) = FirstFailing(req[r])

\* C19: the step that answers a request with 400 leaves fileIndex, TEMP_DIR
\* and SAVED_DIR (and the request's index and tracked list) as they were.
C19_RejectionHasNoEffect ==
    [][\A r \in Requests :
          (resp[r].status # 400 /\ resp'[r].status = 400)
              => /\ fileIndex' = fileIndex
                 /\ tempDir' = tempDir
                 /\ savedDir' = savedDir
                 /\ idx' = idx
                 /\ tempFiles' = tempFiles]_vars

\* A request has been rejected by the format rule, the last one.
C19_Witness ==
    \E r \in Requests :
        /\ resp[r].status = 400
        /\ RuleOf(resp[r].error) = 4
        /\ fileIndex = 1 /\ tempDir = {}

\* C20: while a request is in flight, the .mp3 path is in its tempFiles once
\* generateSpeech has been started, and the .wav path once convertToWav has.
Tracked(r) == {tempFiles[r][i] : i \in DOMAIN tempFiles[r]}
C20_WrittenPathsTracked ==
    \A r \in Requests :
        InFlight(r)
            => /\ "Synthesize" \in Events(r) => Mp3Path(r) \in Tracked(r)
               /\ "Transcode" \in Events(r) => WavPath(r) \in Tracked(r)

\* A request is over: its success response has been emitted whole, or its
\* error response has been sent and none of its temporary files is left.
Emitted(r) == resp[r].status = 200 /\ resp[r].detail # "truncated"
FailedAndCleaned(r) == resp[r].status \in {400, 500} /\ FilesOf(r) = {}
\* The client closed the connection before the response was complete.
ClientGone(r) == pc[r] = "aborted"

\* C21: every external call settling, a request whose handler has started
\* generateSpeech eventually is over (emitted, or failed and cleaned), unless
\* its client has gone.
C21_EventuallyTerminal ==
    \A r \in Requests :
        (pc[r] = "synth") ~> (Emitted(r) \/ FailedAndCleaned(r) \/ ClientGone(r))

\* C22: in the persist program a request that is answered 500 has left no
\* file of its own in SAVED_DIR.
C22_NoSavedFileOnError ==
    \A r \in Requests :
        (variant = "persist" /\ resp[r].status = 500) => SavedBy(r) = {}

\* C23: no request is sent more than one response head: neither a
\* synthesis request nor a GET lookup gets a second status line.
C23_AtMostOneResponse ==
    /\ \A r \in Requests : resp[r].n <= 1
    /\ lookup.n <= 1

\* The read stream of the t2a program failed after the pipe was set up, and
\* the request has its one response: the 500 of the listener, or the 200
\* whose head had gone out.
C23_Witness ==
    /\ variant = "t2a"
    /\ \E r1, r2 \in Requests :
          /\ {"Emit", "StreamError"} \subseteq Events(r1) /\ resp[r1].n = 1
          /\ resp[r2].status = 200 /\ resp[r2].n = 1

\* C24: the display filename reported to an answered request, looked up with
\* GET /api/duration/:filename while the request's audio exists on disk, is
\* not answered 404.
C24_ReportedNameResolves ==
    \A r \in Requests :
        ( /\ lookup.route = "duration"
          /\ r \in lookup.after \cap lookup.live
          /\ lookup.name = FilenameOf(r) )
            => lookup.status # 404

\* C25: the GET routes probe or stream only files of their storage
\* directory, whatever the filename parameter.
C25_StaysInsideDirectory ==
    (lookup.probed \/ lookup.bytes # <<>>) => ~lookup.name.outside

=============================================================================
